---- MODULE Spec2Model ----
(***************************************************************************)
(* Clipper: clipboard history store (SimpleStorage), clipboard monitor     *)
(* (SimpleClipboardMonitor, start_clipboard_monitoring), and the React     *)
(* front end that drives them (App, Settings).                             *)
(*                                                                         *)
(* The history store is modelled from the Rust listing in                  *)
(* src/src/components/WelcomeWizard.tsx (lines 699-849).                   *)
(***************************************************************************)
EXTENDS Integers, Sequences, FiniteSets, TLC

(***************************************************************************)
(* Bounds of the model.                                                    *)
(***************************************************************************)
\* AppSettings::default sets max_items to 100 and max_size_mb to 50, and the
\* settings form accepts max_items in 10..500.  The model runs the same code
\* with the limits scaled down: a store is constructed with max_items in
\* MinMaxItems..ScaledMaxItems and max_size_mb = ScaledMaxSizeMb.  The ratio
\* that matters is kept: max_items texts of 1 MiB exceed
\* max_size_mb * 1_000_000 bytes (100 MiB > 50 MB in the program).
MinMaxItems == 2
ScaledMaxItems == 3
ScaledMaxSizeMb == 2
\* add_item is not called once next_id has passed MaxId (a u64 in the program).
MaxId == 4
\* SystemTime::now() in seconds, observed in 0..MaxClock.
MaxClock == 1
\* setInterval timers alive at once in the model.
MaxTimers == 2
\* invoke() calls of toggle_clipboard_monitoring whose promise is not settled.
MaxInvokes == 2
\* shortcut-conflict events emitted and not yet delivered to the listener.
MaxEvents == 1
\* large-text notifications counted for one content of the clipboard.
MaxNotices == 2
\* fs::write calls in a row that fail.
MaxFaults == 2

(***************************************************************************)
(* Clipboard texts.  A text is its bytes; len is String::len().            *)
(***************************************************************************)
MaxTextBytes == 1024 * 1024

TextA == [text |-> "a", len |-> 1]
TextB == [text |-> "b", len |-> 1]
TextMiB == [text |-> "exactly-1MiB", len |-> MaxTextBytes]
TextOver == [text |-> "1MiB-plus-1", len |-> MaxTextBytes + 1]

Texts == {TextA, TextB, TextMiB, TextOver}

TextLen(content) == content.len

(***************************************************************************)
(* Result<T, E>                                                            *)
(***************************************************************************)
Ok(v) == [ok |-> TRUE, val |-> v]
Err(e) == [ok |-> FALSE, err |-> e]

\* Option<T>
None == [some |-> FALSE]
Some(v) == [some |-> TRUE, val |-> v]

VARIABLES
    \* ---- the history store
    data,       \* SimpleStorage.data : ClipboardData {items, next_id, settings}
    file,       \* the content of clipboard_data.json
    clock,      \* SystemTime::now() as seconds since UNIX_EPOCH
    ret,        \* the last call a caller made on the store and what it returned
    run,        \* the texts added since the store was empty, while nothing but
                \* successful adds of pairwise distinct texts has happened
    streak,     \* the current series of consecutive add calls with one text
    faults,     \* how many of the next fs::write calls fail
    proc,       \* the process: "running", "crashed", "failed" to start, or
                \* "aborted" by a panic
    \* ---- the clipboard monitor
    clipboard,  \* what ClipboardContext::get_text() returns now
    thread,     \* the thread start_clipboard_monitoring spawned, and its monitor
    monitoring, \* whether monitoring is switched on (toggle_clipboard_monitoring)
    notices,    \* the calls of show_large_text_notification since the clipboard
                \* last changed
    \* ---- App: the polling of the frontend
    clipboardMonitoringEnabled, \* useState(false)
    intervals,  \* the number of setInterval timers not yet cleared
    invokes,    \* invoke('toggle_clipboard_monitoring') calls sent, in order
    replies,    \* the answers to them, not yet delivered to .then
    \* ---- the global shortcut
    claimed,    \* the combinations other programs have registered with the OS
    owned,      \* the combinations this program has registered with the OS
    persisted,  \* settings.shortcut as saved (BackendSettings.shortcut)
    manager,    \* the shortcut manager: its state and the combination bound
    events,     \* shortcut-conflict events emitted, not yet delivered
    shortcutConflict,   \* App: useState(null)
    showRestartConfirm, \* App: useState(false)
    currentShortcut,    \* Settings: useState("Ctrl+F11")
    shortcutError,      \* Settings: useState(null)
    shortcutStatus,     \* Settings: useState(the hint)
    \* ---- App: the history on display
    clipboardHistory,   \* useState<ClipboardItem[]>([])
    \* ---- Settings: the form of the maximum number of entries
    maxItemsInput,      \* useState("100"): the characters in the field
    maxItemsStatus,     \* useState(""): the confirmation under the field
    maxItemsError,      \* useState(null)
    \* ---- the Mutex of the store and the calls that go through it
    lock,               \* who holds Arc<Mutex<SimpleStorage>>, or "none"
    adds,               \* for each thread, where its call of add_item is
    \* ---- what tells the window of changes
    updates,            \* clipboard-updated events emitted, not yet delivered
    lastUpdateTime,     \* App: useState<number>(0)
    loading,            \* App: loadClipboardHistory and its two requests
    \* ---- App: the search box and the answers on their way to the window
    searchQuery,        \* useState(""), as a sequence of characters
    pending,            \* answers of the backend not yet delivered to the page
    \* ---- App and Settings: the pages and the recording of a shortcut
    app,                \* the App component: "initial", mounted in
                        \* "development" or "production" mode, or "unmounted"
    currentPage,        \* useState('history')
    isRecordingShortcut, \* Settings: useState(false)
    passthrough,        \* the set_hotkey_passthrough requests sent, in order
    \* ---- WelcomeWizard
    currentStep,        \* useState(0)
    platformInfo,       \* useState(null)
    isCheckingPermissions, \* useState(false)
    finishing,          \* calls of handleNext waiting before onComplete()
    completed           \* how many times onComplete was invoked

storeVars == <<data, file, clock, ret, run, streak, faults, proc>>
monVars == <<clipboard, thread, monitoring, notices>>
uiVars == <<clipboardMonitoringEnabled, intervals, invokes, replies>>
scVars == <<claimed, owned, persisted, manager, events, shortcutConflict, showRestartConfirm,
            currentShortcut, shortcutError, shortcutStatus>>

settingsVars == <<maxItemsInput, maxItemsStatus, maxItemsError>>
formVars == <<clipboardHistory, maxItemsInput, maxItemsStatus, maxItemsError>>

concVars == <<lock, adds>>
syncVars == <<updates, lastUpdateTime, loading>>

displayVars == <<searchQuery, pending>>
recVars == <<currentPage, isRecordingShortcut, passthrough>>
wizardVars == <<currentStep, platformInfo, isCheckingPermissions, finishing, completed>>
pageVars == <<displayVars, app, recVars, wizardVars>>

vars == <<data, file, clock, ret, run, streak, faults, proc,
          clipboard, thread, monitoring, notices,
          clipboardMonitoringEnabled, intervals, invokes, replies,
          claimed, owned, persisted, manager, events, shortcutConflict,
          showRestartConfirm, currentShortcut, shortcutError, shortcutStatus,
          clipboardHistory, maxItemsInput, maxItemsStatus, maxItemsError,
          lock, adds, updates, lastUpdateTime, loading,
          searchQuery, pending, app, currentPage, isRecordingShortcut, passthrough,
          currentStep, platformInfo, isCheckingPermissions, finishing, completed>>

(***************************************************************************)
(* AppSettings::default and the ClipboardData of a new store.              *)
(***************************************************************************)
DefaultSettings(max_items) ==
    [max_items |-> max_items, max_size_mb |-> ScaledMaxSizeMb, auto_start |-> FALSE]

NewData(max_items) ==
    [items |-> <<>>, next_id |-> 1, settings |-> DefaultSettings(max_items)]

(***************************************************************************)
(* Sequence helpers (Vec operations).                                      *)
(***************************************************************************)
\* Vec::retain(|item| item.id != id)
RECURSIVE RetainNotId(_, _)
RetainNotId(s, id) ==
    IF s = <<>> THEN <<>>
    ELSE IF Head(s).id # id THEN <<Head(s)>> \o RetainNotId(Tail(s), id)
         ELSE RetainNotId(Tail(s), id)

\* s without the positions in drop
RECURSIVE RemoveAt(_, _, _)
RemoveAt(s, drop, from) ==
    IF from > Len(s) THEN <<>>
    ELSE IF from \in drop THEN RemoveAt(s, drop, from + 1)
         ELSE <<s[from]>> \o RemoveAt(s, drop, from + 1)

(***************************************************************************)
(* SimpleStorage::cleanup_old_items                                        *)
(***************************************************************************)
\* (mutant) the is_favorite test is left out
RECURSIVE to_remove_any(_, _, _)
to_remove_any(items, n, index) ==
    IF index > Len(items) THEN {}
    ELSE IF n > 0
         THEN {index} \cup to_remove_any(items, n - 1, index + 1)
         ELSE to_remove_any(items, n, index + 1)

\* for (index, item) in items.iter().enumerate():
\*     if !item.is_favorite && to_remove.len() < remove_count { to_remove.push(index) }
\* n is remove_count less the indices already pushed
RECURSIVE to_remove_from(_, _, _)
to_remove_from(items, n, index) ==
    IF index > Len(items) THEN {}
    ELSE IF ~items[index].is_favorite /\ n > 0
         THEN {index} \cup to_remove_from(items, n - 1, index + 1)
         ELSE to_remove_from(items, n, index + 1)

cleanup_old_items(d) ==
    LET max_items == d.settings.max_items
    IN  IF Len(d.items) > max_items
        THEN LET remove_count == Len(d.items) - max_items
                 to_remove == to_remove_from(d.items, remove_count, 1)
             IN  [d EXCEPT !.items = RemoveAt(d.items, to_remove, 1)]
        ELSE d

(***************************************************************************)
(* SimpleStorage::add_item                                                 *)
(***************************************************************************)
\* (mutant) the content is looked up in the whole history
is_duplicate_anywhere(d, content) ==
    \E i \in 1..Len(d.items) : d.items[i].content = content

\* if let Some(last_item) = items.last() { if last_item.content == content
is_duplicate(d, content) ==
    /\ Len(d.items) > 0
    /\ d.items[Len(d.items)].content = content

\* (mutant) the size check is missing
too_large_unchecked(content) == FALSE

\* if content.len() > 1024 * 1024
too_large(content) == TextLen(content) > MaxTextBytes

\* (mutant) the id is taken from the number of entries instead of next_id
new_item_id_from_len(d, content, now) ==
    [id |-> Len(d.items) + 1, content |-> content, timestamp |-> now, is_favorite |-> FALSE]

\* let item = ClipboardItem { id: next_id, content, timestamp, is_favorite: false }
new_item(d, content, now) ==
    [id |-> d.next_id, content |-> content, timestamp |-> now, is_favorite |-> FALSE]

\* items.push(item); next_id += 1
push_item(d, item) ==
    [d EXCEPT !.items = Append(d.items, item), !.next_id = d.next_id + 1]

\* self.save()?: "saved" when fs::write succeeded, "failed" when it did not
save(wok) == IF wok THEN "saved" ELSE "failed"

\* wok: whether fs::write in save() succeeds.  The result names the new data,
\* what the call returns, and what became of the file ("none": save() not called).
add_item(d, content, now, wok) ==
    IF is_duplicate(d, content)
    THEN [data |-> d, res |-> Ok(d.items[Len(d.items)].id), written |-> "none"]
    ELSE IF too_large(content)
    THEN [data |-> d, res |-> Err("Content too large (>1MB)"), written |-> "none"]
    ELSE LET d2 == cleanup_old_items(push_item(d, new_item(d, content, now)))
         IN  [data |-> d2,
              res |-> IF wok THEN Ok(d2.next_id - 1) ELSE Err("io"),
              written |-> save(wok)]

(***************************************************************************)
(* SimpleStorage::get_history                                              *)
(***************************************************************************)
Min(a, b) == IF a < b THEN a ELSE b

get_history(d, limit) ==
    LET end == Min(Len(d.items), limit)
    IN  SubSeq(d.items, 1, end)

\* remove_item reporting a removal whether or not an entry was removed
remove_item_reports_true(d, id, wok) ==
    LET kept == RetainNotId(d.items, id)
    IN  [data |-> [d EXCEPT !.items = kept],
         res |-> IF ~wok THEN Err("io") ELSE Ok(TRUE),
         written |-> save(wok)]

(***************************************************************************)
(* SimpleStorage::remove_item                                              *)
(***************************************************************************)
remove_item(d, id, wok) ==
    LET original_len == Len(d.items)
        kept == RetainNotId(d.items, id)
        removed == Len(kept) < original_len
    IN  [data |-> [d EXCEPT !.items = kept],
         res |-> IF removed /\ ~wok THEN Err("io") ELSE Ok(removed),
         written |-> IF removed THEN save(wok) ELSE "none"]

(***************************************************************************)
(* set_favorite and clear_all: commands of the store whose code is not in  *)
(* the listing; modelled from the store's contract.                        *)
(***************************************************************************)
set_favorite(d, id, fav, wok) ==
    LET found == \E i \in 1..Len(d.items) : d.items[i].id = id
        marked == [i \in 1..Len(d.items) |->
                     IF d.items[i].id = id
                     THEN [d.items[i] EXCEPT !.is_favorite = fav]
                     ELSE d.items[i]]
    IN  [data |-> [d EXCEPT !.items = marked],
         res |-> IF found /\ ~wok THEN Err("io") ELSE Ok(found),
         written |-> IF found THEN save(wok) ELSE "none"]

clear_all(d, wok) ==
    [data |-> [d EXCEPT !.items = <<>>],
     res |-> IF wok THEN Ok(TRUE) ELSE Err("io"),
     written |-> save(wok)]

(***************************************************************************)
(* SimpleClipboardMonitor                                                  *)
(***************************************************************************)
\* get_text() fails: the clipboard holds no text
NoText == [text |-> "", len |-> -1]

ClipboardStates == Texts \cup {NoText}

\* ctx.get_text()
get_text(clip) == IF clip = NoText THEN Err("no text") ELSE Ok(clip)

\* SimpleClipboardMonitor::check_for_changes: the new last_content, what is
\* returned, and whether show_large_text_notification ran
check_for_changes(last_content, clip) ==
    LET got == get_text(clip)
    IN  IF got.ok
        THEN IF Some(got.val) # last_content
             THEN IF TextLen(got.val) <= MaxTextBytes
                  THEN [last_content |-> Some(got.val), out |-> Some(got.val),
                        notified |-> FALSE]
                  ELSE [last_content |-> last_content, out |-> None, notified |-> TRUE]
             ELSE [last_content |-> last_content, out |-> None, notified |-> FALSE]
        ELSE [last_content |-> last_content, out |-> None, notified |-> FALSE]

(***************************************************************************)
(* State machine of the store.                                             *)
(***************************************************************************)
NoRun == [pure |-> FALSE, seen |-> {}]
EmptyRun == [pure |-> TRUE, seen |-> {}]
NoStreak == [n |-> 0]
\* start_clipboard_monitoring has not been called
NoThread == [pc |-> "none"]
\* null
Null == [null |-> TRUE]
\* no combination is registered
Unregistered == [state |-> "Unregistered"]

\* the threads that call the store: the monitor's, and one that serves a
\* command
Threads == {"monitor", "handler"}

\* the thread is not in add_item
IdleAdd == [pc |-> "idle", res |-> None]

Init ==
    /\ \E max_items \in MinMaxItems..ScaledMaxItems :
         /\ data = NewData(max_items)
         /\ file = NewData(max_items)
    /\ clock = 0
    /\ ret = [op |-> "new"]
    /\ run = EmptyRun
    /\ streak = NoStreak
    /\ faults = 0
    /\ proc = "running"
    /\ clipboard = NoText
    /\ notices = 0
    /\ thread = NoThread
    /\ monitoring = FALSE
    /\ clipboardMonitoringEnabled = FALSE
    /\ intervals = 0
    /\ invokes = <<>>
    /\ replies = <<>>
    /\ claimed = {}
    /\ owned = {"Ctrl+F11"}
    /\ persisted = "Ctrl+F11"
    /\ manager = [state |-> "Active", combination |-> "Ctrl+F11"]
    /\ events = <<>>
    /\ shortcutConflict = Null
    /\ showRestartConfirm = FALSE
    /\ currentShortcut = "Ctrl+F11"
    /\ shortcutError = Null
    /\ shortcutStatus = "hint"
    /\ clipboardHistory = <<>>
    /\ maxItemsInput = <<"1", "0", "0">>
    /\ maxItemsStatus = Null
    /\ maxItemsError = Null
    /\ lock = "none"
    /\ adds = [t \in Threads |-> IdleAdd]
    /\ updates = <<>>
    /\ lastUpdateTime = 0
    /\ loading = [pc |-> "idle"]
    /\ searchQuery = <<>>
    /\ pending = {}
    /\ app = "initial"
    /\ currentPage = "history"
    /\ isRecordingShortcut = FALSE
    /\ passthrough = <<>>
    /\ currentStep = 0
    /\ platformInfo = Null
    /\ isCheckingPermissions = FALSE
    /\ finishing = 0
    /\ completed = 0

\* whether fs::write succeeds now
WriteOutcomes == {faults = 0}

\* the call's effect on the store, on the file, and on the faults to come
Commit(r) ==
    /\ data' = r.data
    /\ file' = IF r.written = "saved" THEN r.data ELSE file
    /\ faults' = IF r.written = "failed" THEN faults - 1 ELSE faults

\* the series of consecutive adds of one text: the time of the first and of
\* the latest call, how many calls, and the set of ids they returned
NextStreak(content, now, res) ==
    IF ~res.ok THEN NoStreak
    ELSE IF streak.n > 0 /\ streak.content = content
    THEN [streak EXCEPT !.n = IF @ < 2 THEN @ + 1 ELSE @, !.last = now,
                        !.ids = @ \cup {res.val}]
    ELSE [n |-> 1, content |-> content, first |-> now, last |-> now, ids |-> {res.val}]

AddItemFrom(texts) ==
    /\ data.next_id <= MaxId
    /\ \E content \in texts, wok \in WriteOutcomes :
         LET r == add_item(data, content, clock, wok)
         IN  /\ Commit(r)
             /\ ret' = [op |-> "add", content |-> content, res |-> r.res]
             /\ run' = IF run.pure /\ r.res.ok /\ content \notin run.seen
                       THEN [run EXCEPT !.seen = @ \cup {content}]
                       ELSE NoRun
             /\ streak' = NextStreak(content, clock, r.res)
    /\ UNCHANGED <<clock, proc, monVars, uiVars, scVars, formVars, concVars, syncVars, pageVars>>

AddItem == AddItemFrom(Texts)

RemoveItem ==
    /\ \E id \in 1..MaxId, wok \in WriteOutcomes :
         LET r == remove_item(data, id, wok)
         IN  /\ Commit(r)
             /\ ret' = [op |-> "delete", res |-> r.res]
    /\ run' = NoRun
    /\ streak' = NoStreak
    /\ UNCHANGED <<clock, proc, monVars, uiVars, scVars, formVars, concVars, syncVars, pageVars>>

SetFavorite ==
    /\ \E id \in 1..MaxId, fav \in BOOLEAN, wok \in WriteOutcomes :
         LET r == set_favorite(data, id, fav, wok)
         IN  /\ Commit(r)
             /\ ret' = [op |-> "set_favorite", res |-> r.res]
    /\ run' = NoRun
    /\ streak' = NoStreak
    /\ UNCHANGED <<clock, proc, monVars, uiVars, scVars, formVars, concVars, syncVars, pageVars>>

ClearAll ==
    /\ \E wok \in WriteOutcomes :
         LET r == clear_all(data, wok)
         IN  /\ Commit(r)
             /\ ret' = [op |-> "clear_all", res |-> r.res]
    /\ run' = EmptyRun
    /\ streak' = NoStreak
    /\ UNCHANGED <<clock, proc, monVars, uiVars, scVars, formVars, concVars, syncVars, pageVars>>

\* the limits callers pass: 1, and the front end's 100
Limits == {1, 100}

GetHistory ==
    /\ \E limit \in Limits :
         ret' = [op |-> "get_history", limit |-> limit, res |-> Ok(get_history(data, limit))]
    /\ UNCHANGED <<data, file, clock, run, streak, faults, proc, monVars, uiVars, scVars, formVars, concVars, syncVars, pageVars>>

Tick ==
    /\ clock < MaxClock
    /\ clock' = clock + 1
    /\ UNCHANGED <<data, file, ret, run, streak, faults, proc, monVars, uiVars, scVars, formVars, concVars, syncVars, pageVars>>

\* The store's operations, all called within one second of the clock.
Next ==
    \/ AddItem
    \/ RemoveItem
    \/ SetFavorite
    \/ ClearAll
    \/ GetHistory

Spec == Init /\ [][Next]_vars

\* The store's operations with the clock advancing between the calls.
NextTimed ==
    \/ Next
    \/ Tick

SpecTimed == Init /\ [][NextTimed]_vars

(***************************************************************************)
(* Persistence: fs::write that fails, a process that crashes while save()  *)
(* writes, and SimpleStorage::new at the next start.                       *)
(***************************************************************************)
\* what fs::write leaves of the file when the process dies in it: the file
\* was truncated and holds a part of the new content
Torn == [torn |-> TRUE]

\* the disk starts to fail: the next n calls of fs::write return an error
DiskFault ==
    /\ faults = 0
    /\ \E n \in 1..MaxFaults : faults' = n
    /\ UNCHANGED <<data, file, clock, ret, run, streak, proc, monVars, uiVars, scVars, formVars, concVars, syncVars, pageVars>>

\* the process dies while add_item runs: before save() has called fs::write,
\* inside fs::write, or after it
CrashInAddItem ==
    /\ data.next_id <= MaxId
    /\ faults = 0
    /\ \E content \in Texts :
         LET r == add_item(data, content, clock, TRUE)
         IN  /\ r.written = "saved"
             /\ file' \in {file, Torn, r.data}
    /\ proc' = "crashed"
    /\ UNCHANGED <<data, clock, ret, run, streak, faults, monVars, uiVars, scVars, formVars, concVars, syncVars, pageVars>>

\* serde_json::from_str(&content)
from_str(content) == IF content = Torn THEN Err("json") ELSE Ok(content)

\* SimpleStorage::new in the next process: the file exists, and is read and
\* parsed; an error of either is returned to the caller
Startup ==
    /\ proc = "crashed"
    /\ LET parsed == from_str(file)
       IN  IF parsed.ok
           THEN /\ data' = parsed.val
                /\ proc' = "running"
                /\ ret' = [op |-> "new", res |-> Ok(TRUE)]
           ELSE /\ proc' = "failed"
                /\ ret' = [op |-> "new", res |-> parsed]
                /\ UNCHANGED data
    /\ run' = NoRun
    /\ streak' = NoStreak
    /\ UNCHANGED <<file, clock, faults, monVars, uiVars, scVars, formVars, concVars, syncVars, pageVars>>

\* The store on a disk that can fail, in a process that can die and restart.
NextPersist ==
    \/ /\ proc = "running"
       /\ \/ AddItem
          \/ RemoveItem
          \/ DiskFault
          \/ CrashInAddItem
    \/ Startup

SpecPersist == Init /\ [][NextPersist]_vars

(***************************************************************************)
(* App: the history on display, loadClipboardHistory and deleteItem.       *)
(***************************************************************************)
\* loadClipboardHistory: invoke("get_clipboard_history", { limit: 100 })
LoadClipboardHistory ==
    /\ LET history == get_history(data, 100)
       IN  /\ ret' = [op |-> "get_history", limit |-> 100, res |-> Ok(history)]
           /\ clipboardHistory' = history
    /\ UNCHANGED <<data, file, clock, run, streak, faults, proc, monVars, uiVars, scVars,
                   settingsVars, concVars, syncVars, pageVars>>

\* deleteItem(id), from the button of an entry on display:
\* invoke("delete_history_item", { id }), and the entry leaves the list when
\* the answer is true; an error is logged
DeleteItem ==
    /\ \E i \in 1..Len(clipboardHistory), wok \in WriteOutcomes :
         LET id == clipboardHistory[i].id
             r == remove_item(data, id, wok)
             success == r.res.ok /\ r.res.val
         IN  /\ Commit(r)
             /\ ret' = [op |-> "delete", id |-> id, res |-> r.res]
             /\ clipboardHistory' = IF success THEN RetainNotId(clipboardHistory, id)
                                    ELSE clipboardHistory
    /\ run' = NoRun
    /\ streak' = NoStreak
    /\ UNCHANGED <<clock, proc, monVars, uiVars, scVars, settingsVars, concVars, syncVars, pageVars>>

\* The window of the history over a store that the monitor adds to.
NextView ==
    \/ AddItem
    \/ LoadClipboardHistory
    \/ DeleteItem

SpecView == Init /\ [][NextView]_vars

(***************************************************************************)
(* Search: searchClipboard of App and the command search_clipboard_items,  *)
(* over texts of letters in both cases.                                    *)
(***************************************************************************)
Chars(cs) == [text |-> cs, len |-> Len(cs)]

SearchTexts ==
    { Chars(<<"F", "o", "o">>), Chars(<<"f", "O", "b">>), Chars(<<"b", "o">>) }

Queries ==
    { <<" ">>, <<"f", "o">>, <<"F", "O">>, <<"O", "b">>, <<"o", "f">> }

\* char::to_lowercase, over the letters of the texts
to_lowercase(c) ==
    CASE c = "F" -> "f"
      [] c = "O" -> "o"
      [] c = "B" -> "b"
      [] OTHER -> c

lowercase(cs) == [i \in 1..Len(cs) |-> to_lowercase(cs[i])]

\* str::contains
contains(hay, needle) ==
    \E from \in 1..(Len(hay) - Len(needle) + 1) :
        SubSeq(hay, from, from + Len(needle) - 1) = needle

\* whether the text contains the query, ignoring case
matches(content, query) == contains(lowercase(content.text), lowercase(query))

\* the entries of items that match, the last of items first
RECURSIVE MatchingNewestFirst(_, _)
MatchingNewestFirst(items, query) ==
    IF items = <<>> THEN <<>>
    ELSE LET last == items[Len(items)]
             rest == MatchingNewestFirst(SubSeq(items, 1, Len(items) - 1), query)
         IN  IF matches(last.content, query) THEN <<last>> \o rest ELSE rest

\* search(query): the entries whose text contains the query ignoring case,
\* in descending order of created_at
search(d, query) == MatchingNewestFirst(d.items, query)

\* String.prototype.trim, over texts whose only white space is the space
RECURSIVE TrimStart(_)
TrimStart(cs) == IF cs # <<>> /\ Head(cs) = " " THEN TrimStart(Tail(cs)) ELSE cs

RECURSIVE TrimEnd(_)
TrimEnd(cs) ==
    IF cs # <<>> /\ cs[Len(cs)] = " " THEN TrimEnd(SubSeq(cs, 1, Len(cs) - 1)) ELSE cs

trim(cs) == TrimEnd(TrimStart(cs))

\* searchClipboard(query): an empty query loads the history; any other is
\* sent, as typed, to search_clipboard_items, and the list on display
\* becomes the answer
SearchClipboard ==
    /\ \E query \in Queries :
         IF trim(query) = <<>>
         THEN LET history == get_history(data, 100)
              IN  /\ ret' = [op |-> "get_history", limit |-> 100, res |-> Ok(history)]
                  /\ clipboardHistory' = history
         ELSE LET results == search(data, query)
              IN  /\ ret' = [op |-> "search", query |-> query, res |-> Ok(results)]
                  /\ clipboardHistory' = results
    /\ UNCHANGED <<data, file, clock, run, streak, faults, proc, monVars, uiVars, scVars,
                   settingsVars, concVars, syncVars, pageVars>>

AddSearchText == AddItemFrom(SearchTexts)

\* The search of the window over a store that texts are added to.
NextSearch ==
    \/ AddSearchText
    \/ SearchClipboard
    \/ Tick

SpecSearch == Init /\ [][NextSearch]_vars

(***************************************************************************)
(* Settings: the field of the maximum number of entries, saveMaxItems, and *)
(* the command update_max_items.                                           *)
(***************************************************************************)
DigitChars == <<"0", "1", "2", "3", "4", "5", "6", "7", "8", "9">>

IsDigit(c) == \E i \in 1..Len(DigitChars) : DigitChars[i] = c

DigitValue(c) == (CHOOSE i \in 1..Len(DigitChars) : DigitChars[i] = c) - 1

\* the number of digits s starts with
RECURSIVE DigitPrefixLen(_)
DigitPrefixLen(s) ==
    IF s = <<>> \/ ~IsDigit(Head(s)) THEN 0 ELSE 1 + DigitPrefixLen(Tail(s))

\* the number a sequence of digits writes in base 10
RECURSIVE DigitsToNumber(_, _)
DigitsToNumber(s, acc) ==
    IF s = <<>> THEN acc ELSE DigitsToNumber(Tail(s), 10 * acc + DigitValue(Head(s)))

HasSign(s) == s # <<>> /\ Head(s) \in {"+", "-"}
Unsigned(s) == IF HasSign(s) THEN Tail(s) ELSE s
SignOf(s) == IF s # <<>> /\ Head(s) = "-" THEN -1 ELSE 1

\* parseInt(s, 10): an optional sign and the longest run of digits after it;
\* what follows the digits is ignored, and without a digit the result is NaN
\* (the value of a number field holds no white space to skip)
parseInt(s) ==
    LET body == Unsigned(s)
        n == DigitPrefixLen(body)
    IN  IF n = 0 THEN [nan |-> TRUE, val |-> 0]
        ELSE [nan |-> FALSE, val |-> SignOf(s) * DigitsToNumber(SubSeq(body, 1, n), 0)]

\* the first position of c in s, or 0
IndexOf(s, c) ==
    IF \E i \in 1..Len(s) : s[i] = c
    THEN CHOOSE i \in 1..Len(s) : s[i] = c /\ \A j \in 1..(i - 1) : s[j] # c
    ELSE 0

RECURSIVE Pow10(_)
Pow10(n) == IF n = 0 THEN 1 ELSE 10 * Pow10(n - 1)

\* The number a field of type "number" holds: a sign, digits, a fraction and
\* an exponent, as the pair of an integer and a power of ten,
\* digits * 10^exp; the empty value is no number.
valueAsNumber(s) ==
    LET body == Unsigned(s)
        ePos == IndexOf(body, "e")
        mant == IF ePos = 0 THEN body ELSE SubSeq(body, 1, ePos - 1)
        expo == IF ePos = 0 THEN <<>> ELSE SubSeq(body, ePos + 1, Len(body))
        dPos == IndexOf(mant, ".")
        ip == IF dPos = 0 THEN mant ELSE SubSeq(mant, 1, dPos - 1)
        fp == IF dPos = 0 THEN <<>> ELSE SubSeq(mant, dPos + 1, Len(mant))
    IN  IF s = <<>> THEN [nan |-> TRUE, digits |-> 0, exp |-> 0]
        ELSE [nan |-> FALSE,
              digits |-> SignOf(s) * DigitsToNumber(ip \o fp, 0),
              exp |-> SignOf(expo) * DigitsToNumber(Unsigned(expo), 0) - Len(fp)]

\* whether the number is below lo or above hi
IsOutside(v, lo, hi) ==
    /\ ~v.nan
    /\ IF v.exp >= 0
       THEN v.digits * Pow10(v.exp) < lo \/ v.digits * Pow10(v.exp) > hi
       ELSE v.digits < lo * Pow10(-v.exp) \/ v.digits > hi * Pow10(-v.exp)

\* what the user can leave in the field: the field keeps a valid number or
\* the empty value
MaxItemsInputs ==
    { <<>>,
      <<"9">>, <<"1", "0">>, <<"1", "0", "0">>, <<"5", "0", "0">>, <<"5", "0", "1">>,
      <<"-", "5", "0">>,
      <<"1", "0", "0", ".", "5">>,
      <<"2", "0", "e", "2">>,
      <<"5", "e", "2">>,
      <<"5", "0", "0", "0", "e", "-", "1">> }

\* onChange of the field
OnChangeMaxItems ==
    /\ \E value \in MaxItemsInputs : maxItemsInput' = value
    /\ maxItemsStatus' = Null
    /\ maxItemsError' = Null
    /\ UNCHANGED <<storeVars, monVars, uiVars, scVars, clipboardHistory, concVars, syncVars, pageVars>>

\* update_limits of the store: the limits are stored and saved; eviction
\* runs after an insertion, and not here
update_limits(d, max_items, max_size_mb, wok) ==
    [data |-> [d EXCEPT !.settings.max_items = max_items,
                        !.settings.max_size_mb = max_size_mb],
     res |-> IF wok THEN Ok(TRUE) ELSE Err("io"),
     written |-> save(wok)]

\* the command update_max_items: a value outside [10, 500] is refused and
\* the settings stay; a value inside is stored and saved
update_max_items(d, max_items, wok) ==
    IF max_items < 10 \/ max_items > 500
    THEN [data |-> d, res |-> Err("range"), written |-> "none"]
    ELSE update_limits(d, max_items, d.settings.max_size_mb, wok)

\* saveMaxItems
SaveMaxItems ==
    LET parsed == parseInt(maxItemsInput)
    IN  IF parsed.nan
        THEN /\ maxItemsError' = [error |-> "enter a valid number"]
             /\ maxItemsStatus' = Null
             /\ UNCHANGED <<storeVars, monVars, uiVars, scVars, clipboardHistory, maxItemsInput, concVars, syncVars, pageVars>>
        ELSE IF parsed.val < 10 \/ parsed.val > 500
        THEN /\ maxItemsError' = [error |-> "the range is 10 to 500"]
             /\ maxItemsStatus' = Null
             /\ UNCHANGED <<storeVars, monVars, uiVars, scVars, clipboardHistory, maxItemsInput, concVars, syncVars, pageVars>>
        ELSE \E wok \in WriteOutcomes :
               LET r == update_max_items(data, parsed.val, wok)
               IN  /\ Commit(r)
                   /\ ret' = [op |-> "update_max_items", max_items |-> parsed.val, res |-> r.res]
                   /\ maxItemsStatus' = IF r.res.ok THEN [saved |-> parsed.val]
                                        ELSE maxItemsStatus
                   /\ maxItemsError' = IF r.res.ok THEN Null
                                       ELSE [error |-> "saving failed"]
                   /\ run' = NoRun
                   /\ streak' = NoStreak
                   /\ UNCHANGED <<clock, proc, monVars, uiVars, scVars, clipboardHistory,
                                  maxItemsInput, concVars, syncVars, pageVars>>

\* update_limits called with limits of the size of the histories here
UpdateLimits ==
    /\ \E max_items \in MinMaxItems..ScaledMaxItems, wok \in WriteOutcomes :
         LET r == update_limits(data, max_items, data.settings.max_size_mb, wok)
         IN  /\ Commit(r)
             /\ ret' = [op |-> "update_limits", max_items |-> max_items, res |-> r.res]
    /\ run' = NoRun
    /\ streak' = NoStreak
    /\ UNCHANGED <<clock, proc, monVars, uiVars, scVars, formVars, concVars, syncVars, pageVars>>

\* The store with limits that change.
NextLimits ==
    \/ AddItem
    \/ UpdateLimits

SpecLimits == Init /\ [][NextLimits]_vars

\* The form of the settings over the store.
NextSettings ==
    \/ OnChangeMaxItems
    \/ SaveMaxItems
    \/ AddItem

SpecSettings == Init /\ [][NextSettings]_vars

(***************************************************************************)
(* The clipboard monitor: start_clipboard_monitoring and the commands that *)
(* switch monitoring on and off.                                           *)
(***************************************************************************)
\* the user, or another program, puts something else on the clipboard
SetClipboard ==
    /\ \E clip \in ClipboardStates :
         /\ clip # clipboard
         /\ clipboard' = clip
    /\ notices' = 0
    /\ UNCHANGED <<storeVars, thread, monitoring, uiVars, scVars, formVars, concVars, syncVars, pageVars>>

\* thread::spawn(move || { let mut monitor = SimpleClipboardMonitor::new() ...
start_clipboard_monitoring ==
    [pc |-> "idle", last_content |-> None, notified |-> FALSE]

\* toggle_clipboard_monitoring(enable): the flag is set, and the polling
\* thread is spawned the first time monitoring is switched on.  The loop of
\* start_clipboard_monitoring has no exit and reads no flag.
toggle_clipboard_monitoring(enable) ==
    /\ monitoring' = enable
    /\ thread' = IF enable /\ thread.pc = "none"
                 THEN start_clipboard_monitoring
                 ELSE thread

\* the monitor's start(): a no-op when monitoring is on
StartMonitoring ==
    /\ ~monitoring
    /\ toggle_clipboard_monitoring(TRUE)
    /\ UNCHANGED <<storeVars, clipboard, uiVars, scVars, formVars, notices, concVars, syncVars, pageVars>>

\* the monitor's stop(): a no-op when monitoring is off
StopMonitoring ==
    /\ monitoring
    /\ toggle_clipboard_monitoring(FALSE)
    /\ UNCHANGED <<storeVars, clipboard, uiVars, scVars, formVars, notices, concVars, syncVars, pageVars>>

\* loop { if let Some(content) = monitor.check_for_changes() { ...
\* polled_on records whether monitoring was on when the poll was made.
MonitorCheck ==
    /\ thread.pc = "idle"
    /\ LET r == check_for_changes(thread.last_content, clipboard)
       IN  /\ thread' = IF r.out.some
                         THEN [pc |-> "store", last_content |-> r.last_content,
                               notified |-> r.notified, content |-> r.out.val,
                               polled_on |-> monitoring]
                         ELSE [pc |-> "idle", last_content |-> r.last_content,
                               notified |-> r.notified]
           /\ r.notified => notices < MaxNotices
           /\ notices' = IF r.notified THEN notices + 1 ELSE notices
    /\ UNCHANGED <<storeVars, clipboard, monitoring, uiVars, scVars, formVars, concVars, syncVars, pageVars>>

\* ... if let Ok(mut storage) = storage.lock() { if let Ok(_id) =
\* storage.add_item(content) { } } } thread::sleep(500 ms) }
MonitorStore ==
    /\ thread.pc = "store"
    /\ data.next_id <= MaxId
    /\ \E wok \in WriteOutcomes :
         Commit(add_item(data, thread.content, clock, wok))
    /\ thread' = [pc |-> "idle", last_content |-> thread.last_content,
                  notified |-> thread.notified]
    /\ UNCHANGED <<clock, ret, run, streak, proc, clipboard, monitoring, uiVars, scVars,
                   formVars, notices, concVars, syncVars, pageVars>>

\* The monitor with a store that callers also add to directly.
NextMonitor ==
    \/ SetClipboard
    \/ StartMonitoring
    \/ StopMonitoring
    \/ MonitorCheck
    \/ MonitorStore
    \/ AddItem

SpecMonitor == Init /\ [][NextMonitor]_vars

(***************************************************************************)
(* The host process and the failures of the core.                          *)
(***************************************************************************)
\* SimpleClipboardMonitor::new() when ClipboardContext::new() fails
monitor_new_without_clipboard == Err("clipboard")

\* .unwrap() in the spawned thread: the value, or a panic; with
\* [profile.release] panic = "abort" a panic in any thread ends the process
unwrap(result) ==
    IF result.ok THEN [panicked |-> FALSE, val |-> result.val]
    ELSE [panicked |-> TRUE]

\* monitoring is switched on while the clipboard cannot be opened:
\* start_clipboard_monitoring spawns the thread, and the thread unwraps the
\* error of SimpleClipboardMonitor::new()
StartMonitoringWithoutClipboard ==
    /\ ~monitoring
    /\ thread.pc = "none"
    /\ monitoring' = TRUE
    /\ LET monitor == unwrap(monitor_new_without_clipboard)
       IN  IF monitor.panicked
           THEN /\ thread' = [pc |-> "panicked"]
                /\ proc' = "aborted"
           ELSE /\ thread' = start_clipboard_monitoring
                /\ UNCHANGED proc
    /\ UNCHANGED <<data, file, clock, ret, run, streak, faults, clipboard, notices,
                   uiVars, scVars, formVars, concVars, syncVars, pageVars>>

\* The core in its host process, with the failures it meets: a clipboard
\* that cannot be opened or read, and a disk that fails.
NextHost ==
    /\ proc = "running"
    /\ \/ SetClipboard
       \/ StartMonitoring
       \/ StartMonitoringWithoutClipboard
       \/ MonitorCheck
       \/ MonitorStore
       \/ DiskFault

SpecHost == Init /\ [][NextHost]_vars

(***************************************************************************)
(* The store behind its Mutex: add_item step by step, called by the        *)
(* monitor's thread and by a thread that serves a command.                 *)
(***************************************************************************)
\* (mutant) a lock that is granted while another thread holds it
can_lock_always(holder) == TRUE

\* storage.lock(): granted when no thread holds the Mutex
can_lock(holder) == holder = "none"

\* the texts the two threads add
ConcurrentTexts == {TextA, TextB}

\* the id of the last entry, or 0
LastId(items) == IF items = <<>> THEN 0 ELSE items[Len(items)].id

\* if let Ok(mut storage) = storage.lock() { storage.add_item(content) ...
LockForAdd(t) ==
    /\ adds[t].pc = "idle"
    /\ data.next_id <= MaxId
    /\ can_lock(lock)
    /\ lock' = t
    /\ \E content \in ConcurrentTexts :
         adds' = [adds EXCEPT ![t] = [pc |-> "check", content |-> content, res |-> None]]
    /\ UNCHANGED <<storeVars, monVars, uiVars, scVars, formVars, syncVars, pageVars>>

\* add_item: the duplicate check against items.last(), and the size check
DedupCheck(t) ==
    /\ adds[t].pc = "check"
    /\ adds' = [adds EXCEPT ![t] =
                 IF is_duplicate(data, adds[t].content)
                 THEN [pc |-> "unlock", res |-> Some(LastId(data.items))]
                 ELSE IF too_large(adds[t].content)
                 THEN [pc |-> "unlock", res |-> None]
                 ELSE [pc |-> "insert", content |-> adds[t].content, res |-> None,
                       last_seen |-> LastId(data.items)]]
    /\ UNCHANGED <<storeVars, monVars, uiVars, scVars, formVars, lock, syncVars, pageVars>>

\* add_item: items.push(item); next_id += 1
Insert(t) ==
    /\ adds[t].pc = "insert"
    /\ data' = push_item(data, new_item(data, adds[t].content, clock))
    /\ adds' = [adds EXCEPT ![t] = [pc |-> "evict", res |-> Some(data.next_id),
                                    last_seen |-> adds[t].last_seen]]
    /\ UNCHANGED <<file, clock, ret, run, streak, faults, proc, monVars, uiVars, scVars,
                   formVars, lock, syncVars, pageVars>>

\* add_item: cleanup_old_items()?; save()?
EvictAndSave(t) ==
    /\ adds[t].pc = "evict"
    /\ data' = cleanup_old_items(data)
    /\ file' = data'
    /\ adds' = [adds EXCEPT ![t] = [pc |-> "unlock", res |-> adds[t].res]]
    /\ UNCHANGED <<clock, ret, run, streak, faults, proc, monVars, uiVars, scVars,
                   formVars, lock, syncVars, pageVars>>

\* the guard of the Mutex is dropped at the end of the block
Unlock(t) ==
    /\ adds[t].pc = "unlock"
    /\ lock' = "none"
    /\ adds' = [adds EXCEPT ![t] = [pc |-> "idle", res |-> adds[t].res]]
    /\ UNCHANGED <<storeVars, monVars, uiVars, scVars, formVars, syncVars, pageVars>>

\* a command locks the store, reads get_history(100) and unlocks
LockedGetHistory ==
    /\ can_lock(lock)
    /\ ret' = [op |-> "get_history", limit |-> 100, res |-> Ok(get_history(data, 100))]
    /\ UNCHANGED <<data, file, clock, run, streak, faults, proc, monVars, uiVars,
                   scVars, formVars, concVars, syncVars, pageVars>>

\* Two threads that add, and a command that reads.
NextConcurrent ==
    \/ \E t \in Threads :
          \/ LockForAdd(t)
          \/ DedupCheck(t)
          \/ Insert(t)
          \/ EvictAndSave(t)
          \/ Unlock(t)
    \/ LockedGetHistory

SpecConcurrent == Init /\ [][NextConcurrent]_vars

(***************************************************************************)
(* App in production mode: checkForUpdates and the two requests of         *)
(* loadClipboardHistory, answered by the backend one at a time.            *)
(***************************************************************************)
\* get_last_updated: a number that grows with every change of the history;
\* here the number of entries inserted so far
get_last_updated(d) == d.next_id - 1

\* no request of loadClipboardHistory is waiting for its answer
NotLoading == [pc |-> "idle"]

\* loadClipboardHistory: Promise.all([invoke("get_clipboard_history"),
\* invoke("get_last_updated")]) sends both requests
BeginLoad == [pc |-> "wait", history |-> None, lastUpdated |-> None]

\* checkForUpdates, every 3 seconds: get_last_updated is compared with
\* lastUpdateTime, and a larger value is stored and starts a load
CheckForUpdates ==
    /\ loading.pc = "idle"
    /\ LET currentLastUpdated == get_last_updated(data)
       IN  /\ currentLastUpdated > lastUpdateTime
           /\ lastUpdateTime' = currentLastUpdated
           /\ loading' = BeginLoad
    /\ UNCHANGED <<storeVars, monVars, uiVars, scVars, formVars, concVars, updates, pageVars>>

\* the backend answers get_clipboard_history { limit: 100 }
HistoryReply ==
    /\ loading.pc = "wait"
    /\ ~loading.history.some
    /\ loading' = [loading EXCEPT !.history = Some(get_history(data, 100))]
    /\ UNCHANGED <<storeVars, monVars, uiVars, scVars, formVars, concVars, updates,
                   lastUpdateTime, pageVars>>

\* the backend answers get_last_updated
LastUpdatedReply ==
    /\ loading.pc = "wait"
    /\ ~loading.lastUpdated.some
    /\ loading' = [loading EXCEPT !.lastUpdated = Some(get_last_updated(data))]
    /\ UNCHANGED <<storeVars, monVars, uiVars, scVars, formVars, concVars, updates,
                   lastUpdateTime, pageVars>>

\* loadClipboardHistory after both answers:
\* setClipboardHistory(history); setLastUpdateTime(lastUpdated)
FinishLoad ==
    /\ loading.pc = "wait"
    /\ loading.history.some
    /\ loading.lastUpdated.some
    /\ clipboardHistory' = loading.history.val
    /\ lastUpdateTime' = loading.lastUpdated.val
    /\ loading' = NotLoading
    /\ UNCHANGED <<storeVars, monVars, uiVars, scVars, settingsVars, concVars, updates, pageVars>>

\* The backend's history grows while the frontend polls it.
NextSync ==
    \/ AddItem
    \/ CheckForUpdates
    \/ HistoryReply
    \/ LastUpdatedReply
    \/ FinishLoad

SpecSync == Init /\ [][NextSync]_vars

(***************************************************************************)
(* App: startClipboardMonitoring, stopClipboardMonitoring and the answers  *)
(* to their toggle_clipboard_monitoring requests.                          *)
(***************************************************************************)
\* invoke('toggle_clipboard_monitoring', { enable })
Invoke(enable, from) == [enable |-> enable, from |-> from]

\* startClipboardMonitoring: returns at once when the flag is set; else sends
\* the enable request, whose .then sets the flag, and setInterval(..., 2000).
StartClipboardMonitoring ==
    /\ Len(invokes) + Len(replies) < MaxInvokes
    /\ intervals < MaxTimers
    /\ IF clipboardMonitoringEnabled
       THEN UNCHANGED <<invokes, intervals>>
       ELSE /\ invokes' = Append(invokes, Invoke(TRUE, "start"))
            /\ intervals' = intervals + 1
    /\ UNCHANGED <<storeVars, monVars, clipboardMonitoringEnabled, replies, scVars, formVars, concVars, syncVars, pageVars>>

\* the function startClipboardMonitoring returned: clearInterval,
\* setClipboardMonitoringEnabled(false) and the disable request
MonitorCleanup ==
    /\ intervals > 0
    /\ Len(invokes) + Len(replies) < MaxInvokes
    /\ intervals' = intervals - 1
    /\ clipboardMonitoringEnabled' = FALSE
    /\ invokes' = Append(invokes, Invoke(FALSE, "cleanup"))
    /\ UNCHANGED <<storeVars, monVars, replies, scVars, formVars, concVars, syncVars, pageVars>>

\* stopClipboardMonitoring: sends the disable request when the flag is set;
\* its .then clears the flag.  The timer is not cleared.
StopClipboardMonitoring ==
    /\ Len(invokes) + Len(replies) < MaxInvokes
    /\ IF clipboardMonitoringEnabled
       THEN invokes' = Append(invokes, Invoke(FALSE, "stop"))
       ELSE UNCHANGED invokes
    /\ UNCHANGED <<storeVars, monVars, clipboardMonitoringEnabled, intervals,
                   replies, scVars, formVars, concVars, syncVars, pageVars>>

\* the backend runs the oldest request and answers it
ToggleHandled ==
    /\ invokes # <<>>
    /\ toggle_clipboard_monitoring(Head(invokes).enable)
    /\ invokes' = Tail(invokes)
    /\ replies' = Append(replies, Head(invokes))
    /\ UNCHANGED <<storeVars, clipboard, clipboardMonitoringEnabled, intervals, scVars, formVars, notices, concVars, syncVars, pageVars>>

\* .then(() => setClipboardMonitoringEnabled(...)) of the request answered
ToggleResolved ==
    /\ replies # <<>>
    /\ replies' = Tail(replies)
    /\ clipboardMonitoringEnabled' =
          IF Head(replies).from = "start" THEN TRUE
          ELSE IF Head(replies).from = "stop" THEN FALSE
          ELSE clipboardMonitoringEnabled
    /\ UNCHANGED <<storeVars, monVars, intervals, invokes, scVars, formVars, concVars, syncVars, pageVars>>

NextPolling ==
    \/ StartClipboardMonitoring
    \/ MonitorCleanup
    \/ StopClipboardMonitoring
    \/ ToggleHandled
    \/ ToggleResolved

SpecPolling == Init /\ [][NextPolling]_vars

(***************************************************************************)
(* App: the list on display, fed by the load of the mount effect, by the   *)
(* polling timer, by the update check and by the search box.  The backend  *)
(* answers a request at once; the answer reaches the page later, and the   *)
(* answers of different requests reach it in any order.                    *)
(***************************************************************************)
\* the answers that may be on their way at one time
MaxPending == 2

\* the captures while the window is watched
MaxCaptures == 2

\* the texts captured
DisplayTexts == { Chars(<<"F", "o", "o">>), Chars(<<"b", "o">>) }

\* what is typed into the search box
DisplayQueries == { <<" ">>, <<"f", "o">>, <<"b">> }

\* the monitor's thread stores a text it found on the clipboard
CaptureText ==
    /\ data.next_id <= MaxCaptures
    /\ AddItemFrom(DisplayTexts)

\* check_clipboard_changes: the clipboard's text is added to the store; the
\* answer is the entry when a new entry was made, and null otherwise
check_clipboard_changes(d, content, now, wok) ==
    LET r == add_item(d, content, now, wok)
    IN  [data |-> r.data, written |-> r.written,
         res |-> IF r.res.ok /\ r.res.val = d.next_id
                 THEN Some(new_item(d, content, now))
                 ELSE None]

\* the mount effect of App: loadClipboardHistory(), and in development mode
\* startClipboardMonitoring() (the enable request and the 2 s timer); in
\* production mode the effect of the 3 s update check sets its timer
MountApp ==
    /\ app = "initial"
    /\ loading.pc = "idle"
    /\ \E mode \in {"development", "production"} :
         /\ app' = mode
         /\ invokes' = IF mode = "development"
                       THEN Append(invokes, Invoke(TRUE, "start"))
                       ELSE invokes
    /\ intervals' = intervals + 1
    /\ loading' = BeginLoad
    /\ UNCHANGED <<storeVars, monVars, clipboardMonitoringEnabled, replies, scVars,
                   formVars, concVars, updates, lastUpdateTime, displayVars, recVars,
                   wizardVars>>

\* the callback of the 2 s timer: invoke('check_clipboard_changes')
PollClipboard ==
    /\ app = "development"
    /\ intervals > 0
    /\ data.next_id <= MaxCaptures
    /\ Cardinality(pending) < MaxPending
    /\ \E content \in DisplayTexts :
         LET r == check_clipboard_changes(data, content, clock, TRUE)
         IN  /\ Commit(r)
             /\ pending' = IF r.res.some
                           THEN pending \cup {[kind |-> "poll", item |-> r.res.val]}
                           ELSE pending
    /\ UNCHANGED <<clock, ret, run, streak, proc, monVars, uiVars, scVars, formVars,
                   concVars, syncVars, searchQuery, app, recVars, wizardVars>>

\* if (newItem) setClipboardHistory(prev => [newItem, ...prev])
PollAnswered ==
    /\ \E r \in pending :
         /\ r.kind = "poll"
         /\ clipboardHistory' = <<r.item>> \o clipboardHistory
         /\ pending' = pending \ {r}
    /\ UNCHANGED <<storeVars, monVars, uiVars, scVars, settingsVars, concVars, syncVars,
                   searchQuery, app, recVars, wizardVars>>

\* the callback of the 3 s timer, in production mode only
UpdateCheck ==
    /\ app = "production"
    /\ intervals > 0
    /\ CheckForUpdates

\* the search box changes and stays as it is for 300 ms:
\* searchClipboard(searchQuery)
SearchFor ==
    /\ app \in {"development", "production"}
    /\ \E query \in DisplayQueries :
         /\ query # searchQuery
         /\ searchQuery' = query
         /\ IF trim(query) = <<>>
            THEN /\ loading.pc = "idle"
                 /\ loading' = BeginLoad
                 /\ UNCHANGED pending
            ELSE /\ Cardinality(pending) < MaxPending
                 /\ pending' = pending \cup
                       {[kind |-> "search", query |-> query, results |-> search(data, query)]}
                 /\ UNCHANGED loading
    /\ UNCHANGED <<storeVars, monVars, uiVars, scVars, formVars, concVars, updates,
                   lastUpdateTime, app, recVars, wizardVars>>

\* searchClipboard after its await: setClipboardHistory(results)
SearchAnswered ==
    /\ \E r \in pending :
         /\ r.kind = "search"
         /\ clipboardHistory' = r.results
         /\ pending' = pending \ {r}
    /\ UNCHANGED <<storeVars, monVars, uiVars, scVars, settingsVars, concVars, syncVars,
                   searchQuery, app, recVars, wizardVars>>

\* The window while texts are captured.
NextDisplay ==
    \/ MountApp
    \/ CaptureText
    \/ PollClipboard
    \/ PollAnswered
    \/ UpdateCheck
    \/ HistoryReply
    \/ LastUpdatedReply
    \/ FinishLoad
    \/ SearchFor
    \/ SearchAnswered

SpecDisplay == Init /\ [][NextDisplay]_vars

(***************************************************************************)
(* App: the cleanup of the mount effect.                                   *)
(***************************************************************************)
\* (mutant) a cleanup that leaves the timer running
clearInterval_forgotten(timers) == timers

\* clearInterval(checkInterval)
clearInterval(timers) == timers - 1

\* the cleanup of the mount effect.  In development mode the function that
\* startClipboardMonitoring returned runs: clearInterval,
\* setClipboardMonitoringEnabled(false) and the disable request; then
\* stopClipboardMonitoring(), which reads clipboardMonitoringEnabled as it was
\* in the render that ran the effect (false) and does nothing.  In
\* production mode the effect of the update check clears its timer.
UnmountApp ==
    /\ app \in {"development", "production"}
    /\ Len(invokes) + Len(replies) < MaxInvokes
    /\ app' = "unmounted"
    /\ intervals' = clearInterval(intervals)
    /\ clipboardMonitoringEnabled' = FALSE
    /\ LET enabledWhenMounted == FALSE
           afterCleanup == IF app = "development"
                           THEN Append(invokes, Invoke(FALSE, "cleanup"))
                           ELSE invokes
       IN  invokes' = IF enabledWhenMounted
                      THEN Append(afterCleanup, Invoke(FALSE, "stop"))
                      ELSE afterCleanup
    /\ UNCHANGED <<storeVars, monVars, replies, scVars, formVars, concVars, syncVars,
                   displayVars, recVars, wizardVars>>

\* the .then of a request, while App is mounted
ToggleResolvedMounted ==
    /\ app # "unmounted"
    /\ ToggleResolved

\* the .then of a request after App unmounted: its setState has no effect
ToggleResolvedUnmounted ==
    /\ app = "unmounted"
    /\ replies # <<>>
    /\ replies' = Tail(replies)
    /\ UNCHANGED <<storeVars, monVars, clipboardMonitoringEnabled, intervals, invokes,
                   scVars, formVars, concVars, syncVars, pageVars>>

\* App from its mount to its unmount, with the backend answering.
NextLifecycle ==
    \/ MountApp
    \/ UnmountApp
    \/ ToggleHandled
    \/ ToggleResolvedMounted
    \/ ToggleResolvedUnmounted
    \/ PollClipboard
    \/ PollAnswered
    \/ HistoryReply
    \/ LastUpdatedReply
    \/ FinishLoad

SpecLifecycle == Init /\ [][NextLifecycle]_vars

(***************************************************************************)
(* WelcomeWizard: the steps, handleNext and handlePrevious.                *)
(***************************************************************************)
\* the calls of onComplete followed in one run
MaxCompleted == 2

\* PlatformInfo.platform as get_platform_info may report it
Platforms == {"Windows", "macOS", "Linux", "FreeBSD"}

\* platformInfo?.platform || ''
PlatformOf(info) == IF info = Null THEN "" ELSE info.platform

\* getPlatformSpecificSteps: the steps of the wizard, by platform
getPlatformSpecificSteps(info) ==
    CASE PlatformOf(info) = "Windows" -> <<"welcome", "shortcut", "ready">>
      [] PlatformOf(info) = "macOS" -> <<"welcome", "permissions", "shortcut", "ready">>
      [] PlatformOf(info) = "Linux" -> <<"welcome", "shortcut", "ready">>
      [] OTHER -> <<"welcome", "ready">>

\* const steps = getPlatformSpecificSteps()
steps == getPlatformSpecificSteps(platformInfo)

\* getPermissionStepIndex
getPermissionStepIndex(platform) ==
    CASE platform = "Windows" -> -1
      [] platform = "macOS" -> 1
      [] platform = "Linux" -> -1
      [] OTHER -> -1

\* the effect on [currentStep, platformInfo]: whether checkPermissions() runs
ChecksPermissions(step, info) ==
    step = getPermissionStepIndex(PlatformOf(info)) /\ PlatformOf(info) # "Windows"

\* the disabled attribute of the button that calls handleNext
NextDisabled ==
    \/ PlatformOf(platformInfo) = "macOS" /\ currentStep = 1 /\ isCheckingPermissions
    \/ PlatformOf(platformInfo) = "Linux" /\ currentStep = 1 /\ isCheckingPermissions

\* (mutant) handleNext that always goes one step on
handleNext_unguarded(step, count) == [step |-> step + 1, complete |-> FALSE]

\* handleNext: the next step, or on the last step the completion
handleNext(step, count) ==
    IF step < count - 1
    THEN [step |-> step + 1, complete |-> FALSE]
    ELSE [step |-> step, complete |-> TRUE]

\* handlePrevious
handlePrevious(step) == IF step > 0 THEN step - 1 ELSE step

\* loadPlatformInfo: the answer of get_platform_info, setPlatformInfo(info)
LoadPlatformInfo ==
    /\ platformInfo = Null
    /\ \E platform \in Platforms :
         /\ platformInfo' = [platform |-> platform]
         /\ isCheckingPermissions' =
               (isCheckingPermissions \/ ChecksPermissions(currentStep, platformInfo'))
    /\ UNCHANGED <<storeVars, monVars, uiVars, scVars, formVars, concVars, syncVars,
                   displayVars, app, recVars, currentStep, finishing, completed>>

\* checkPermissions after its await: setIsCheckingPermissions(false)
PermissionsChecked ==
    /\ isCheckingPermissions
    /\ isCheckingPermissions' = FALSE
    /\ UNCHANGED <<storeVars, monVars, uiVars, scVars, formVars, concVars, syncVars,
                   displayVars, app, recVars, currentStep, platformInfo, finishing,
                   completed>>

\* a click on the button of handleNext
HandleNext ==
    /\ ~NextDisabled
    /\ LET r == handleNext(currentStep, Len(steps))
       IN  /\ r.complete => finishing + completed < MaxCompleted
           /\ currentStep' = r.step
           /\ finishing' = IF r.complete THEN finishing + 1 ELSE finishing
           /\ isCheckingPermissions' =
                 (isCheckingPermissions \/
                    (r.step # currentStep /\ ChecksPermissions(r.step, platformInfo)))
    /\ UNCHANGED <<storeVars, monVars, uiVars, scVars, formVars, concVars, syncVars,
                   displayVars, app, recVars, platformInfo, completed>>

\* handleNext after adjustWindowSize(false) and minimize(): onComplete()
CompleteWizard ==
    /\ finishing > 0
    /\ finishing' = finishing - 1
    /\ completed' = completed + 1
    /\ UNCHANGED <<storeVars, monVars, uiVars, scVars, formVars, concVars, syncVars,
                   displayVars, app, recVars, currentStep, platformInfo,
                   isCheckingPermissions>>

\* a click on the button of handlePrevious, shown when currentStep > 0
HandlePrevious ==
    /\ currentStep > 0
    /\ currentStep' = handlePrevious(currentStep)
    /\ isCheckingPermissions' =
          (isCheckingPermissions \/ ChecksPermissions(currentStep', platformInfo))
    /\ UNCHANGED <<storeVars, monVars, uiVars, scVars, formVars, concVars, syncVars,
                   displayVars, app, recVars, platformInfo, finishing, completed>>

\* The wizard under clicks, with the platform arriving at any moment.
NextWizard ==
    \/ LoadPlatformInfo
    \/ PermissionsChecked
    \/ HandleNext
    \/ CompleteWizard
    \/ HandlePrevious

SpecWizard == Init /\ [][NextWizard]_vars

(***************************************************************************)
(* The global shortcut: update_shortcut, the shortcut-conflict event, the  *)
(* conflict dialog of App and the shortcut form of Settings.               *)
(***************************************************************************)
\* key combinations
Combinations == {"Ctrl+F11", "Ctrl+Shift+V", "Ctrl+Alt+F7"}

\* what the shortcut input can hold
FormValues == Combinations \cup {""}

\* the fallback list: the combinations suggested after a conflict
FallbackList == <<"Ctrl+Alt+F7", "Ctrl+Shift+F12", "Ctrl+Alt+F9">>

\* the buttons of the conflict dialog (className="shortcut-suggestion-btn")
ModalAlternatives == {"Ctrl+Alt+F7", "Ctrl+Shift+F12", "Ctrl+Alt+F9", "Ctrl+Shift+V"}

\* the alternatives suggested for combination c, in the order of the list
RECURSIVE Suggestions(_, _)
Suggestions(list, c) ==
    IF list = <<>> THEN <<>>
    ELSE IF Head(list) = c THEN Suggestions(Tail(list), c)
    ELSE <<Head(list)>> \o Suggestions(Tail(list), c)

\* the combinations the OS refuses: those of other programs and those this
\* program holds
Claimed == claimed \cup owned

\* register(combination): Active, or Conflict with a message that names the
\* combination and the suggested alternatives
register(c) ==
    IF c \in Claimed
    THEN [state |-> "Conflict", combination |-> c,
          message |-> [requested |-> c], suggestions |-> Suggestions(FallbackList, c)]
    ELSE [state |-> "Active", combination |-> c]

\* (mutant) the registration the program holds is kept
unregister_nothing(held) == held

\* unregister(): the registrations the program holds are released; nothing
\* changes when it holds none
unregister(held) == {}

\* another program registers or releases a combination
OsClaim ==
    /\ \E c \in Combinations :
         /\ c \notin owned
         /\ claimed' = IF c \in claimed THEN claimed \ {c} ELSE claimed \cup {c}
    /\ UNCHANGED <<storeVars, monVars, uiVars, owned, persisted, manager, events,
                   shortcutConflict, showRestartConfirm, currentShortcut,
                   shortcutError, shortcutStatus, formVars, concVars, syncVars, pageVars>>

\* onChange of the shortcut input
OnChangeShortcut ==
    /\ \E v \in FormValues :
         /\ v # currentShortcut
         /\ currentShortcut' = v
         /\ shortcutError' = IF v # "" THEN Null ELSE shortcutError
    /\ UNCHANGED <<storeVars, monVars, uiVars, claimed, owned, persisted, manager,
                   events, shortcutConflict, showRestartConfirm, shortcutStatus, formVars, concVars, syncVars, pageVars>>

\* saveShortcut: invoke('update_shortcut', { shortcut: currentShortcut }).
\* update_shortcut asks the OS for the combination; a conflict emits
\* shortcut-conflict{message, suggestion} and the call fails.  On success the
\* combination is saved in the settings and the restart dialog is shown: the
\* new combination takes effect when the program is restarted, and until
\* then the binding is the old one.
SaveShortcut ==
    /\ Len(events) < MaxEvents
    /\ IF currentShortcut = ""
       THEN /\ shortcutError' = "enter a shortcut first"
            /\ UNCHANGED <<persisted, events, shortcutStatus, showRestartConfirm>>
       ELSE LET r == register(currentShortcut)
            IN  IF r.state = "Active"
                THEN /\ persisted' = currentShortcut
                     /\ shortcutStatus' = "saved"
                     /\ showRestartConfirm' = TRUE
                     /\ UNCHANGED <<events, shortcutError>>
                ELSE /\ events' = Append(events, [message |-> r.message,
                                                   suggestion |-> r.suggestions[1]])
                     /\ shortcutError' = "saving the shortcut failed"
                     /\ UNCHANGED <<persisted, shortcutStatus, showRestartConfirm>>
    /\ UNCHANGED <<storeVars, monVars, uiVars, claimed, owned, manager,
                   shortcutConflict, currentShortcut, formVars, concVars, syncVars, pageVars>>

\* what setup leaves of the manager: global_shortcut().register(...)? binds the
\* combination, or returns the error of the OS; there is no second attempt
setup_register(c) ==
    IF c \in claimed
    THEN [state |-> "Conflict", combination |-> c]
    ELSE [state |-> "Active", combination |-> c]

\* the restart button of the restart dialog: setShowRestartConfirm(false) and
\* invoke('restart_app').  The process exits, which releases its
\* registration; the new process registers the saved combination in setup,
\* and its front end starts from its initial state with the settings loaded.
RestartApp ==
    /\ showRestartConfirm
    /\ LET r == setup_register(persisted)
       IN  /\ manager' = r
           /\ owned' = unregister(owned)
                          \cup (IF r.state = "Active" THEN {persisted} ELSE {})
    /\ events' = <<>>
    /\ shortcutConflict' = Null
    /\ showRestartConfirm' = FALSE
    /\ currentShortcut' = persisted
    /\ shortcutError' = Null
    /\ shortcutStatus' = "hint"
    /\ UNCHANGED <<storeVars, monVars, uiVars, claimed, persisted, formVars, concVars, syncVars, pageVars>>

\* listen('shortcut-conflict', (event) => setShortcutConflict({ message:
\* event.payload.message, suggestion: event.payload.suggestion }))
OnShortcutConflict ==
    /\ events # <<>>
    /\ shortcutConflict' = [message |-> Head(events).message,
                            suggestion |-> Head(events).suggestion]
    /\ events' = Tail(events)
    /\ UNCHANGED <<storeVars, monVars, uiVars, claimed, owned, persisted, manager,
                   showRestartConfirm, currentShortcut, shortcutError, shortcutStatus, formVars, concVars, syncVars, pageVars>>

\* any button of the conflict dialog: onClick={() => setShortcutConflict(null)}
CloseConflict ==
    /\ shortcutConflict # Null
    /\ shortcutConflict' = Null
    /\ UNCHANGED <<storeVars, monVars, uiVars, claimed, owned, persisted, manager,
                   events, showRestartConfirm, currentShortcut, shortcutError,
                   shortcutStatus, formVars, concVars, syncVars, pageVars>>

\* the "later" and close buttons of the restart dialog: setShowRestartConfirm(false)
CloseRestartConfirm ==
    /\ showRestartConfirm
    /\ showRestartConfirm' = FALSE
    /\ UNCHANGED <<storeVars, monVars, uiVars, claimed, owned, persisted, manager,
                   events, shortcutConflict, currentShortcut, shortcutError,
                   shortcutStatus, formVars, concVars, syncVars, pageVars>>

(***************************************************************************)
(* Settings: the shortcut input, filled by key presses and by text.        *)
(***************************************************************************)
\* KeyboardEvent.key of the keys pressed here
EventKeys == {"v", "F11", "Shift", "Control", "Escape"}

KeyboardEvents ==
    [ctrlKey : BOOLEAN, altKey : BOOLEAN, shiftKey : BOOLEAN, metaKey : BOOLEAN,
     key : EventKeys]

\* String.prototype.toUpperCase, over the names of the keys
toUpperCase(key) ==
    CASE key = "v" -> "V"
      [] key = "Shift" -> "SHIFT"
      [] key = "Control" -> "CONTROL"
      [] key = "Escape" -> "ESCAPE"
      [] OTHER -> key

\* Array.prototype.join('+')
RECURSIVE join(_)
join(parts) ==
    IF parts = <<>> THEN ""
    ELSE IF Len(parts) = 1 THEN parts[1]
    ELSE parts[1] \o "+" \o join(Tail(parts))

formatShortcut(e) ==
    LET mods == (IF e.ctrlKey THEN <<"Ctrl">> ELSE <<>>)
                \o (IF e.altKey THEN <<"Alt">> ELSE <<>>)
                \o (IF e.shiftKey THEN <<"Shift">> ELSE <<>>)
                \o (IF e.metaKey THEN <<"Cmd">> ELSE <<>>)
        main == IF e.key \notin {"Control", "Alt", "Shift", "Meta"}
                THEN <<toUpperCase(e.key)>> ELSE <<>>
    IN  join(mods \o main)

\* handleShortcutKeyDown: a key pressed with a modifier is recorded
ShortcutKeyDown ==
    /\ \E e \in KeyboardEvents :
         LET hasModifier == e.ctrlKey \/ e.altKey \/ e.shiftKey \/ e.metaKey
             hasMainKey == e.key \notin {"Control", "Alt", "Shift", "Meta", "Escape", "Tab"}
         IN  /\ hasModifier /\ hasMainKey
             /\ currentShortcut' = formatShortcut(e)
             /\ shortcutError' = Null
             /\ shortcutStatus' = "recorded"
    /\ UNCHANGED <<storeVars, monVars, uiVars, claimed, owned, persisted, manager,
                   events, shortcutConflict, showRestartConfirm, formVars, concVars, syncVars, pageVars>>

\* text the input receives without a key press (pasted from the menu, or
\* dropped on it)
InsertedTexts == {"hello", "V", "Ctrl+", "Ctrl+Shift+V"}

\* onChange of the shortcut input: the input holds the text inserted
InsertShortcutText ==
    /\ \E v \in InsertedTexts :
         /\ v # currentShortcut
         /\ currentShortcut' = v
         /\ shortcutError' = IF v \in {"Ctrl+", "Ctrl+Shift+V"} THEN Null ELSE shortcutError
    /\ UNCHANGED <<storeVars, monVars, uiVars, claimed, owned, persisted, manager,
                   events, shortcutConflict, showRestartConfirm, shortcutStatus, formVars, concVars, syncVars, pageVars>>

\* The shortcut form: what it records, what it is given, and what it saves.
NextShortcutForm ==
    \/ ShortcutKeyDown
    \/ InsertShortcutText
    \/ SaveShortcut
    \/ OnShortcutConflict
    \/ CloseRestartConfirm

SpecShortcutForm == Init /\ [][NextShortcutForm]_vars

(***************************************************************************)
(* Settings: the recording of a shortcut and set_hotkey_passthrough.       *)
(***************************************************************************)
\* the set_hotkey_passthrough requests followed in one run
MaxPassthrough == 4

\* setHotkeyPassthrough(disabled): invoke("set_hotkey_passthrough", { disabled })
setHotkeyPassthrough(sent, disabled) == Append(sent, disabled)

\* (mutant) Settings without the effect that runs when it unmounts
unmountEffect_missing(sent) == sent

\* the cleanup of the effect with no dependencies: setHotkeyPassthrough(false)
unmountEffect(sent) == setHotkeyPassthrough(sent, FALSE)

\* listen('show-settings'): setCurrentPage('settings'); Settings mounts
OpenSettings ==
    /\ currentPage = "history"
    /\ currentPage' = "settings"
    /\ isRecordingShortcut' = FALSE
    /\ UNCHANGED <<storeVars, monVars, uiVars, scVars, formVars, concVars, syncVars,
                   displayVars, app, passthrough, wizardVars>>

\* onFocus of the shortcut input: startRecordingShortcut
StartRecordingShortcut ==
    /\ currentPage = "settings"
    /\ ~isRecordingShortcut
    /\ Len(passthrough) < MaxPassthrough
    /\ isRecordingShortcut' = TRUE
    /\ shortcutStatus' = "press"
    /\ shortcutError' = Null
    /\ passthrough' = setHotkeyPassthrough(passthrough, TRUE)
    /\ UNCHANGED <<storeVars, monVars, uiVars, claimed, owned, persisted, manager,
                   events, shortcutConflict, showRestartConfirm, currentShortcut,
                   formVars, concVars, syncVars, displayVars, app, currentPage,
                   wizardVars>>

\* onKeyDown of the shortcut input, which has the focus
RecordKeyDown ==
    /\ currentPage = "settings"
    /\ isRecordingShortcut
    /\ ShortcutKeyDown

\* onBlur of the shortcut input: stopRecordingShortcut
StopRecordingShortcut ==
    /\ currentPage = "settings"
    /\ isRecordingShortcut
    /\ Len(passthrough) < MaxPassthrough
    /\ isRecordingShortcut' = FALSE
    /\ shortcutStatus' = "hint"
    /\ passthrough' = setHotkeyPassthrough(passthrough, FALSE)
    /\ UNCHANGED <<storeVars, monVars, uiVars, claimed, owned, persisted, manager,
                   events, shortcutConflict, showRestartConfirm, currentShortcut,
                   shortcutError, formVars, concVars, syncVars, displayVars, app,
                   currentPage, wizardVars>>

\* closeSettingsPage or listen('show-history'): setCurrentPage('history');
\* Settings unmounts, with the input focused or not, and its state is gone
CloseSettings ==
    /\ currentPage = "settings"
    /\ Len(passthrough) < MaxPassthrough
    /\ currentPage' = "history"
    /\ isRecordingShortcut' = FALSE
    /\ passthrough' = unmountEffect(passthrough)
    /\ UNCHANGED <<storeVars, monVars, uiVars, scVars, formVars, concVars, syncVars,
                   displayVars, app, wizardVars>>

\* The settings page opened and closed while shortcuts are recorded.
NextRecording ==
    \/ OpenSettings
    \/ StartRecordingShortcut
    \/ RecordKeyDown
    \/ StopRecordingShortcut
    \/ CloseSettings

SpecRecording == Init /\ [][NextRecording]_vars

NextShortcut ==
    \/ OsClaim
    \/ OnChangeShortcut
    \/ SaveShortcut
    \/ OnShortcutConflict
    \/ CloseConflict
    \/ CloseRestartConfirm
    \/ RestartApp

SpecShortcut == Init /\ [][NextShortcut]_vars

(***************************************************************************)
(* Properties of the history store.                                        *)
(***************************************************************************)
IdsOf(items) == {items[i].id : i \in 1..Len(items)}

\* the step is a call of add_item (Tick is the only other step that leaves
\* ret naming an add, and it changes the clock)
IsAdd == ret'.op = "add" /\ clock' = clock

\* C1: the ids add_item assigns to new entries are strictly increasing and
\* never assigned twice, whatever is deleted, evicted, marked or cleared in
\* between: next_id never decreases, an entry that appears holds an id that
\* is at least the next_id before the step and below the next_id after it,
\* an add that creates an entry returns that id, and no two entries of the
\* history share an id.
C1_IdsStrictlyIncreasing ==
    [][ /\ data'.next_id >= data.next_id
        /\ \A i \in 1..Len(data'.items) :
              /\ data'.items[i].id < data'.next_id
              /\ data'.items[i].id \notin IdsOf(data.items)
                    => data'.items[i].id >= data.next_id
              /\ \A j \in 1..Len(data'.items) :
                    i # j => data'.items[i].id # data'.items[j].id
        /\ (IsAdd /\ ret'.res.ok /\ data'.next_id > data.next_id)
              => ret'.res.val = data.next_id
      ]_vars

\* C1 witness: an add has assigned an id after earlier entries were removed
\* (the history holds one entry, and its id is neither 1 nor the count).
C1_Witness ==
    /\ ret.op = "add" /\ ret.res.ok
    /\ Len(data.items) = 1
    /\ data.items[1].id = ret.res.val
    /\ ret.res.val = data.next_id - 1
    /\ ret.res.val > 2

\* C2: N consecutive submissions of one text yield exactly one entry for it,
\* every call returns that entry's id, its created_at is the time of the
\* first submission and its updated_at the time of the Nth.  ClipboardItem
\* carries one time, timestamp, which is both.
C2_ConsecutiveDuplicates ==
    streak.n > 0 =>
        /\ Cardinality(streak.ids) = 1
        /\ \A id \in streak.ids :
              /\ Cardinality({i \in 1..Len(data.items) : data.items[i].id = id}) = 1
              /\ \A i \in 1..Len(data.items) :
                    data.items[i].id = id =>
                        /\ data.items[i].content = streak.content
                        /\ data.items[i].timestamp = streak.first
                        /\ data.items[i].timestamp = streak.last

\* C3: after k > max_items additions of pairwise distinct texts into an empty
\* store, get_history(limit) with limit >= max_items returns the max_items
\* entries added last, the most recent first.
C3_MostRecentFirst ==
    LET m == data.settings.max_items
    IN  ( /\ run.pure
          /\ Cardinality(run.seen) > m
          /\ ret.op = "get_history"
          /\ ret.limit >= m )
        => /\ Len(ret.res.val) = m
           /\ \A i \in 1..m : ret.res.val[i].id = data.next_id - i

\* C4: an add never removes a favorite entry, however many entries the
\* history holds: every entry that is_favorite before add_item is in the
\* history after it, as it was.
C4_FavoriteSurvivesAdd ==
    [][ IsAdd =>
          \A i \in 1..Len(data.items) :
              data.items[i].is_favorite
                => \E j \in 1..Len(data'.items) : data'.items[j] = data.items[i]
      ]_vars

\* C4 witness: the entry with id 1 is a favorite and is still the head of the
\* history after an add that evicted, and after more ids were assigned than
\* max_items: as a non-favorite it would have been removed.
C4_Witness ==
    /\ ret.op = "add" /\ ret.res.ok
    /\ Len(data.items) = data.settings.max_items
    /\ data.items[1].is_favorite
    /\ data.items[1].id = 1
    /\ data.next_id - 1 > data.settings.max_items
    /\ ret.res.val = data.next_id - 1

\* bytes of the entries that are not favorites
RECURSIVE NonFavoriteBytes(_)
NonFavoriteBytes(items) ==
    IF items = <<>> THEN 0
    ELSE (IF Head(items).is_favorite THEN 0 ELSE TextLen(Head(items).content))
         + NonFavoriteBytes(Tail(items))

\* C6: after a successful add the count is at most max_items and the bytes of
\* the non-favorite entries are at most max_size_mb * 1_000_000, or only
\* favorites are left.
C6_LimitsAfterAdd ==
    (ret.op = "add" /\ ret.res.ok) =>
        \/ /\ Len(data.items) <= data.settings.max_items
           /\ NonFavoriteBytes(data.items) <= data.settings.max_size_mb * 1000000
        \/ \A i \in 1..Len(data.items) : data.items[i].is_favorite

\* the text is held by an entry that is not the last one, and not by the last
OlderIdentical(d, content) ==
    /\ \E i \in 1..(Len(d.items) - 1) : d.items[i].content = content
    /\ d.items[Len(d.items)].content # content

\* C7 as claimed: adding a text that an entry other than the last one holds
\* creates a new entry with a fresh id, and every older entry with that text
\* is in the history afterwards, unchanged.
C7_OlderEntryLeftInHistory ==
    [][ (IsAdd /\ ret'.res.ok /\ OlderIdentical(data, ret'.content)) =>
          /\ ret'.res.val \notin IdsOf(data.items)
          /\ \E j \in 1..Len(data'.items) :
                /\ data'.items[j].id = ret'.res.val
                /\ data'.items[j].content = ret'.content
          /\ \A i \in 1..Len(data.items) :
                data.items[i].content = ret'.content
                  => \E j \in 1..Len(data'.items) : data'.items[j] = data.items[i]
      ]_vars

\* C7 as amended: such an add takes the insertion path, not the dedup path.
\* It returns a fresh id (the old next_id), the history afterwards is the old
\* history with the new entry appended, less what the eviction that follows
\* the insertion removed; no older entry is modified, and while the history
\* was below max_items nothing is removed.
C7_DedupOnlyAgainstLast ==
    [][ (IsAdd /\ ret'.res.ok /\ OlderIdentical(data, ret'.content)) =>
          LET fresh == [id |-> data.next_id, content |-> ret'.content,
                        timestamp |-> clock, is_favorite |-> FALSE]
              pushed == Append(data.items, fresh)
          IN  /\ ret'.res.val = data.next_id
              /\ data.next_id \notin IdsOf(data.items)
              /\ data'.next_id = data.next_id + 1
              /\ \A j \in 1..Len(data'.items) :
                    \E i \in 1..Len(pushed) : data'.items[j] = pushed[i]
              /\ Len(data.items) < data.settings.max_items => data'.items = pushed
      ]_vars

\* C7 witness: two entries hold the same text, the later one is the last
\* entry and is the one the add returned, and the older one is still there.
C7_Witness ==
    /\ ret.op = "add" /\ ret.res.ok
    /\ Len(data.items) >= 3
    /\ data.items[Len(data.items)].id = ret.res.val
    /\ data.items[Len(data.items)].content = ret.content
    /\ \E i \in 1..(Len(data.items) - 2) :
          /\ data.items[i].content = ret.content
          /\ data.items[i].id < ret.res.val

(***************************************************************************)
(* Properties of the clipboard monitor.                                    *)
(***************************************************************************)
\* C5: no entry of the history holds a text longer than 1 MiB, whether the
\* text came through the monitor or was passed to add_item directly, and the
\* oversized text is in the history neither whole nor cut down; nor is it in
\* the file, or in the hands of the monitor thread on its way to the store.
C5_NoOversizedText ==
    /\ \A i \in 1..Len(data.items) :
          /\ TextLen(data.items[i].content) <= MaxTextBytes
          /\ data.items[i].content.text # TextOver.text
    /\ \A i \in 1..Len(file.items) :
          /\ TextLen(file.items[i].content) <= MaxTextBytes
          /\ file.items[i].content.text # TextOver.text
    /\ thread.pc = "store" => TextLen(thread.content) <= MaxTextBytes

\* C5 witness: the text of 1 MiB + 1 byte was passed to add_item, which
\* refused it, the monitor saw it on the clipboard and showed its notice, and
\* the history holds the text of exactly 1 MiB.
C5_Witness ==
    /\ ret.op = "add" /\ ret.content = TextOver /\ ~ret.res.ok
    /\ clipboard = TextOver
    /\ thread.pc = "idle" /\ thread.notified
    /\ \E i \in 1..Len(data.items) : data.items[i].content = TextMiB

\* C8: with monitoring stopped, the monitor adds no entry to the history
\* except from a poll it had made before the stop.
C8_NoEntryAfterStop ==
    [][ ( /\ thread.pc = "store"
          /\ thread'.pc = "idle"
          /\ data'.next_id > data.next_id
          /\ ~monitoring )
        => thread.polled_on
      ]_vars

(***************************************************************************)
(* Properties of the polling of the frontend.                              *)
(***************************************************************************)
\* C9: at most one polling timer exists at any time, also when
\* startClipboardMonitoring is called again before the answer to the first
\* call's enable request has arrived.
C9_AtMostOneTimer == intervals <= 1

(***************************************************************************)
(* Properties of the global shortcut.                                      *)
(***************************************************************************)
\* C10: while the conflict dialog is shown for a requested combination c,
\* every alternative the dialog offers is different from c.
C10_AlternativesDifferFromRequested ==
    shortcutConflict # Null =>
        \A a \in ModalAlternatives : a # shortcutConflict.message.requested

\* C11: the saved shortcut is the combination of the binding the OS has
\* confirmed: while the manager is Active, settings.shortcut is the
\* combination bound.
C11_PersistedShortcutIsBound ==
    manager.state = "Active" => persisted = manager.combination

\* C12: no registration leaves the manager in Conflict: once a registration
\* attempt has returned, the binding is Active or Disabled.
C12_RegisterEndsActiveOrDisabled ==
    manager.state \in {"Active", "Disabled"}

\* the step is a restart whose registration in setup the OS refused (the
\* status line of the form shows "saved" from the save to the restart)
FailedSetup ==
    /\ shortcutStatus = "saved" /\ shortcutStatus' = "hint"
    /\ manager'.state = "Conflict"

\* C13: every failed registration attempt emits exactly one shortcut-conflict
\* event, which names the combination refused, and no other step emits one:
\* a registration refused in setup leaves an event for the combination, and
\* whenever an event is emitted it is one event, for the combination that
\* was asked for and that the OS holds for someone.
C13_OneConflictEventPerFailure ==
    [][ /\ FailedSetup =>
              /\ Len(events') = 1
              /\ events'[1].message.requested = persisted
        /\ Len(events') > Len(events) =>
              /\ Len(events') = Len(events) + 1
              /\ events'[Len(events')].message.requested = currentShortcut
              /\ currentShortcut \in Claimed
      ]_vars

C15_FileCompleteAfterCrash ==
    proc = "crashed" => file # Torn

\* C16: a start that finds the file corrupted succeeds, with an empty
\* history, next_id 1 and the default settings.
C16_CorruptFileStartsEmpty ==
    [][ (proc = "crashed" /\ proc' # "crashed" /\ file = Torn) =>
          /\ proc' = "running"
          /\ ret'.res.ok
          /\ \E max_items \in MinMaxItems..ScaledMaxItems : data' = NewData(max_items)
      ]_vars

\* the last call changed, or may have changed, the history and returned success
ReturnedSuccess ==
    \/ ret.op \in {"add", "clear_all"} /\ ret.res.ok
    \/ ret.op \in {"delete", "set_favorite"} /\ ret.res.ok /\ ret.res.val

\* C17: when a mutating call has returned success, the file holds the state
\* in memory: items, next_id and settings.
C17_SuccessIsPersisted ==
    (proc = "running" /\ ReturnedSuccess) => file = data

\* C18: a call in which fs::write failed returns an error only when the
\* write failed twice; when only the first write fails, the second one is
\* made, the call succeeds and the file holds the new state.  The state in
\* memory keeps the mutation either way.
C18_WriteRetriedOnce ==
    [][ faults' < faults =>
          /\ faults = 1 => (ret'.res.ok /\ file' = data')
          /\ faults >= 2 => (~ret'.res.ok /\ faults' = faults - 2)
          /\ data' # data
      ]_vars

(***************************************************************************)
(* Properties of the history on display.                                   *)
(***************************************************************************)
\* the step is a call of deleteItem (a step that only makes the disk fail
\* leaves ret naming the last call, and it raises faults)
IsDelete == ret'.op = "delete" /\ faults' <= faults

\* C19: a delete of an id that is not in the history returns false without
\* an error and changes neither the history, nor next_id, nor the file; and
\* the list on display changes in a delete only when the answer was true.
C19_DeleteOfUnknownId ==
    [][ IsDelete =>
          /\ ret'.id \notin IdsOf(data.items) =>
                /\ ret'.res = Ok(FALSE)
                /\ data' = data
                /\ file' = file
                /\ clipboardHistory' = clipboardHistory
          /\ clipboardHistory' # clipboardHistory =>
                /\ ret'.res = Ok(TRUE)
                /\ ret'.id \in IdsOf(data.items)
      ]_vars

\* an entry on display that the store had evicted was deleted: the answer was
\* false and the entry is still on display
C19_Witness ==
    /\ ret.op = "delete"
    /\ ret.res = Ok(FALSE)
    /\ ret.id \notin IdsOf(data.items)
    /\ ret.id \in IdsOf(clipboardHistory)
    /\ file = data

(***************************************************************************)
(* Properties of the form of the settings.                                 *)
(***************************************************************************)
\* the step sent the content of the field to update_max_items
SentToBackend == ret'.op = "update_max_items" /\ maxItemsStatus' # maxItemsStatus

\* C20: max_items changes only to an integer from 10 to 500, a value outside
\* that update_max_items receives is refused and changes nothing, and the
\* form sends nothing when the field holds no number or a number outside
\* [10, 500].
C20_OnlyValidMaxItemsSent ==
    [][ /\ data'.settings.max_items # data.settings.max_items =>
              data'.settings.max_items \in 10..500
        /\ SentToBackend =>
              /\ ret'.max_items \notin 10..500 => (~ret'.res.ok /\ data' = data)
              /\ ~valueAsNumber(maxItemsInput).nan
              /\ ~IsOutside(valueAsNumber(maxItemsInput), 10, 500)
      ]_vars

(***************************************************************************)
(* Properties of search.                                                   *)
(***************************************************************************)
\* the characters are the same letter, in whichever case
SameLetter(c, e) ==
    \/ c = e
    \/ <<c, e>> \in {<<"F", "f">>, <<"f", "F">>, <<"O", "o">>, <<"o", "O">>,
                     <<"B", "b">>, <<"b", "B">>}

\* somewhere in the text, the characters of the query follow one another,
\* each in whichever case
ContainsIgnoringCase(text, query) ==
    \E at \in 0..(Len(text) - Len(query)) :
        \A k \in 1..Len(query) : SameLetter(text[at + k], query[k])

\* the query with the case of every letter changed
SwapCase(query) ==
    [k \in 1..Len(query) |->
        CASE query[k] = "f" -> "F" [] query[k] = "F" -> "f"
          [] query[k] = "o" -> "O" [] query[k] = "O" -> "o"
          [] query[k] = "b" -> "B" [] query[k] = "B" -> "b"
          [] OTHER -> query[k]]

\* the place of the entry with this id in what get_history returns
PlaceInHistory(id) ==
    CHOOSE i \in 1..Len(get_history(data, 100)) : get_history(data, 100)[i].id = id

\* C21: search(q) returns exactly the entries whose text contains q ignoring
\* case, the same ones as for q in the other case, in descending order of
\* created_at, which is the order get_history returns them in.
C21_SearchIgnoresCaseKeepsOrder ==
    ret.op = "search" =>
        LET results == ret.res.val
        IN  /\ \A i \in 1..Len(data.items) :
                  ContainsIgnoringCase(data.items[i].content.text, ret.query)
                      <=> \E j \in 1..Len(results) : results[j] = data.items[i]
            /\ \A j \in 1..Len(results) : \E i \in 1..Len(data.items) : results[j] = data.items[i]
            /\ IdsOf(results) = IdsOf(search(data, SwapCase(ret.query)))
            /\ \A i, j \in 1..Len(results) :
                  i < j => /\ results[i].timestamp >= results[j].timestamp
                           /\ PlaceInHistory(results[i].id) < PlaceInHistory(results[j].id)

(***************************************************************************)
(* Properties of the monitor's classification.                             *)
(***************************************************************************)
\* C22: while the clipboard holds one text, the large-text notification is
\* produced at most once, however many polls see the text; and a poll hands
\* a text to the store only when it differs from the last one handed over.
C22_ClassifiedOncePerChange ==
    [][ /\ notices' <= 1
        /\ (thread.pc = "idle" /\ thread'.pc = "store") =>
              Some(thread'.content) # thread.last_content
      ]_vars

(***************************************************************************)
(* Properties of the host process.                                         *)
(***************************************************************************)
\* C23: whatever fails in the core (the clipboard at the start or in a poll
\* of the monitor, a write of the file), the host process is never aborted.
C23_ProcessNeverAborted ==
    proc # "aborted"

(***************************************************************************)
(* Properties of get_history.                                              *)
(***************************************************************************)
\* C27: get_history(limit) returns the min(limit, count) entries inserted
\* last, the most recent first: the entries it leaves out are the oldest.
C27_HistoryNewestFirst ==
    ret.op = "get_history" =>
        LET count == Len(data.items)
            returned == ret.res.val
        IN  /\ Len(returned) = Min(ret.limit, count)
            /\ \A i \in 1..Len(returned) : returned[i] = data.items[count - i + 1]

\* C30: the id a successful add returns is the id of an entry of the
\* history, also when the history is full of favorites.
C30_ReturnedIdIsInHistory ==
    (ret.op = "add" /\ ret.res.ok) => ret.res.val \in IdsOf(data.items)

(***************************************************************************)
(* Properties of the limits.                                               *)
(***************************************************************************)
\* C25: when update_limits has returned success, the history holds at most
\* max_items entries, or only favorites: the new limit does not wait for the
\* next add.
C25_LimitHoldsAfterUpdate ==
    (ret.op = "update_limits" /\ ret.res.ok) =>
        \/ Len(data.items) <= data.settings.max_items
        \/ \A i \in 1..Len(data.items) : data.items[i].is_favorite

(***************************************************************************)
(* Properties of the shortcut form.                                        *)
(***************************************************************************)
ModifierNames == <<"Ctrl", "Alt", "Shift", "Cmd">>

\* the keys that are not modifiers, as the form writes them
MainKeyNames == {"V", "F11", "F7", "ESCAPE"}

\* the names of the modifiers at the positions in chosen, in their order
RECURSIVE ModifiersAt(_, _)
ModifiersAt(chosen, from) ==
    IF from > Len(ModifierNames) THEN <<>>
    ELSE (IF from \in chosen THEN <<ModifierNames[from]>> ELSE <<>>)
         \o ModifiersAt(chosen, from + 1)

\* the combinations: one modifier or more, in order, and one key that is not
\* a modifier
WellFormedCombinations ==
    { join(ModifiersAt(chosen, 1) \o <<key>>) :
        chosen \in (SUBSET (1..Len(ModifierNames))) \ {{}}, key \in MainKeyNames }

\* the step passed the content of the input to update_shortcut, which saved
\* it or refused it
PassedToUpdateShortcut ==
    \/ shortcutStatus' = "saved" /\ (shortcutStatus # "saved" \/ persisted' # persisted)
    \/ Len(events') > Len(events)

\* C28: what the form passes to update_shortcut is one modifier or more and
\* one key that is not a modifier, whether the input was filled by a key
\* press or by text; nothing else is saved as the shortcut.
C28_OnlyCombinationsSaved ==
    [][ /\ PassedToUpdateShortcut => currentShortcut \in WellFormedCombinations
        /\ persisted' \in WellFormedCombinations
      ]_vars

(***************************************************************************)
(* Properties of the store under concurrency.                              *)
(***************************************************************************)
\* C24: an add inserts behind the entry its duplicate check compared with
\* (no other add came between the check and the insertion), no two entries
\* have one id, and what get_history returned is never a history between an
\* insertion and its eviction: it holds at most max_items entries.
C24_AddIsOneStep ==
    [][ /\ \A t \in Threads :
              (adds[t].pc = "insert" /\ adds'[t].pc = "evict") =>
                  adds[t].last_seen = LastId(data.items)
        /\ Cardinality(IdsOf(data'.items)) = Len(data'.items)
        /\ ret' # ret => \A t \in Threads : adds[t].pc \notin {"insert", "evict"}
        /\ ret'.op = "get_history" => Len(ret'.res.val) <= data'.settings.max_items
      ]_vars

\* the monitor's thread is between its insertion and its eviction, with one
\* entry more than max_items, after the other thread has added an entry and
\* the history was read
C24_Witness ==
    /\ lock = "monitor"
    /\ adds["monitor"].pc = "evict"
    /\ Len(data.items) > data.settings.max_items
    /\ adds["handler"].res.some
    /\ adds["handler"].pc = "idle"
    /\ ret.op = "get_history"

(***************************************************************************)
(* Properties of the clipboard-updated events.                             *)
(***************************************************************************)
\* listen('clipboard-updated'): setClipboardHistory(prev => [newItem, ...prev])
\* applied to the events in the order of their delivery
RECURSIVE BuiltFromEvents(_)
BuiltFromEvents(evts) ==
    IF evts = <<>> THEN <<>>
    ELSE <<evts[Len(evts)]>> \o BuiltFromEvents(SubSeq(evts, 1, Len(evts) - 1))

\* the monitor's thread has just inserted a new entry
Captured == thread.pc = "store" /\ thread'.pc = "idle" /\ data'.next_id > data.next_id

Reconciled == loading.pc = "idle" /\ get_last_updated(data) <= lastUpdateTime

\* C29: lastUpdateTime never decreases, and whenever the frontend has
\* nothing left to re-fetch, the list on display is the backend's history:
\* so once the history stops changing the list comes to equal it.
C29_ReconciledShowsBackendHistory ==
    [][ /\ lastUpdateTime' >= lastUpdateTime
        /\ Reconciled' => clipboardHistory' = get_history(data', 100) ]_vars

(***************************************************************************)
(* Properties of the list on display.                                      *)
(***************************************************************************)
\* C31: the list on display never holds two entries with one id.
C31_DisplayedIdsDistinct ==
    \A i, j \in 1..Len(clipboardHistory) :
        clipboardHistory[i].id = clipboardHistory[j].id => i = j

\* every entry of the list matches the query
OnlyMatches(list, query) ==
    \A i \in 1..Len(list) : matches(list[i].content, query)

\* C32: while the search box holds a query that is not blank and the list
\* on display holds only entries that match it, no step other than a
\* change of the query puts an entry on display that does not match.
C32_SearchResultsStayFiltered ==
    [][ ( /\ trim(searchQuery) # <<>>
          /\ searchQuery' = searchQuery
          /\ OnlyMatches(clipboardHistory, searchQuery) )
        => OnlyMatches(clipboardHistory', searchQuery) ]_vars

\* no answer of a search or of a load is on its way
NothingOutstanding == pending = {} /\ loading.pc = "idle"

\* C33: the answer that is put on display last, when no other search or load
\* is outstanding, is the answer to what the search box holds: the results
\* of that query, or the history when the box is blank.
C33_LastAnswerIsForLatestQuery ==
    [][ ( /\ ~NothingOutstanding
          /\ NothingOutstanding'
          /\ \A r \in pending : r.kind = "search" )
        => \/ /\ loading.pc = "wait"
              /\ trim(searchQuery) = <<>>
           \/ /\ loading.pc = "idle"
              /\ \A r \in pending : r.query = searchQuery ]_vars

(***************************************************************************)
(* Properties of the recording of a shortcut.                              *)
(***************************************************************************)
\* the request sent last asks for the global hotkeys to be off
SuppressionOn == passthrough # <<>> /\ passthrough[Len(passthrough)]

\* C34: the global hotkeys are asked to be off exactly while the shortcut
\* input of the open settings page is recording: the request sent last,
\* once the input lost the focus or the page is closed, is disabled = false.
C34_SuppressedOnlyWhileRecording ==
    SuppressionOn <=> (currentPage = "settings" /\ isRecordingShortcut)

\* the settings page was closed while the input was recording, and the
\* request sent last is disabled = false
C34_Witness ==
    /\ currentPage = "history"
    /\ Len(passthrough) >= 2
    /\ passthrough[Len(passthrough) - 1]
    /\ ~passthrough[Len(passthrough)]
    /\ shortcutStatus = "recorded"

(***************************************************************************)
(* Properties of the unmount of App.                                       *)
(***************************************************************************)
\* the toggle_clipboard_monitoring requests whose .then has not run, in the
\* order they were sent
SentToggles == replies \o invokes

\* C35: after App unmounted no timer is left, the toggle request sent last
\* (if any is still on its way) is enable = false, and the backend's
\* monitoring is off once it has handled them all; and the flag
\* clipboardMonitoringEnabled is set only while the backend has monitoring
\* switched on at the request of the mounted App.
C35_UnmountStopsPolling ==
    /\ app = "unmounted" =>
          /\ intervals = 0
          /\ SentToggles # <<>> => ~SentToggles[Len(SentToggles)].enable
          /\ invokes = <<>> => ~monitoring
    /\ clipboardMonitoringEnabled => (app = "development" /\ monitoring)

\* App unmounted before the backend handled the enable request: the enable
\* and the disable request are both waiting, in this order
C35_Witness ==
    /\ app = "unmounted"
    /\ Len(invokes) = 2
    /\ invokes[1].enable
    /\ ~invokes[2].enable

(***************************************************************************)
(* Properties of the welcome wizard.                                       *)
(***************************************************************************)
\* C36: currentStep is always the index of one of the steps, and onComplete
\* is invoked only for a click on the button of handleNext made on the last
\* step, which leaves the step as it is.
C36_StepInRangeCompleteOnLast ==
    [][ /\ 0 <= currentStep' /\ currentStep' <= Len(steps') - 1
        /\ completed' # completed =>
              (completed' = completed + 1 /\ finishing' = finishing - 1)
        /\ finishing' > finishing =>
              (currentStep = Len(steps) - 1 /\ currentStep' = currentStep)
      ]_vars

\* handleNext was called on the second and last step of the wizard without
\* a platform and waits before onComplete(); the platform arrived since, and
\* the second step is now the second of the four steps of macOS
C36_Witness ==
    /\ PlatformOf(platformInfo) = "macOS"
    /\ currentStep = 1
    /\ finishing = 1
    /\ completed = 0

====
